---------------------------- MODULE Spec2Model ----------------------------
(***************************************************************************)
(* Scalar resolution of candiedyaml (resolver.go).                         *)
(*                                                                         *)
(* A scalar text is a sequence of one-character strings.  A resolved value *)
(* is a record tagged by its field t.  A call of resolve or                *)
(* resolveInterface is one step of the state machine; a run-time panic of  *)
(* the Go code (an index into an empty string) is the outcome "panic".     *)
(***************************************************************************)
EXTENDS Integers, Sequences, FiniteSets, TLC

VARIABLES pc, op, event, kind, before, target, outcome, path, ret

vars == <<pc, op, event, kind, before, target, outcome, path, ret>>

-----------------------------------------------------------------------------
(* Bounds of the model.                                                    *)

\* longest text of the exhaustively enumerated numeric texts
MaxLen == 3
\* longest text of the exhaustively enumerated letter texts
MaxWordLen == 2
\* largest hour of a generated timezone offset
MaxTzHour == 1

-----------------------------------------------------------------------------
(* Program constants.                                                      *)

\* bes *= 60
SexaBase == 60
\* strconv.ParseInt(digits[j], 10, 64)
DecimalBase == 10

-----------------------------------------------------------------------------
(* Strings (package strings, package bytes) on sequences of characters.    *)

DecDigits == <<"0", "1", "2", "3", "4", "5", "6", "7", "8", "9">>
LowerHex == <<"a", "b", "c", "d", "e", "f">>
UpperHex == <<"A", "B", "C", "D", "E", "F">>

IndexOf(seq, c) ==
  IF \E i \in 1..Len(seq) : seq[i] = c
  THEN CHOOSE i \in 1..Len(seq) : seq[i] = c
  ELSE 0

IsDigit(c) == IndexOf(DecDigits, c) > 0

HexDigits == DecDigits \o LowerHex \o UpperHex

\* the digit at index i of HexDigits, 99 when i is 0
DigitAt(i) == IF i = 0 THEN 99 ELSE IF i <= 16 THEN i - 1 ELSE i - 7

\* the value of character c as a digit, 99 when it is no digit at all
DigitVal(c) == DigitAt(IndexOf(HexDigits, c))

UpperLetters ==
  <<"A", "B", "C", "D", "E", "F", "G", "H", "I", "J", "K", "L", "M",
    "N", "O", "P", "Q", "R", "S", "T", "U", "V", "W", "X", "Y", "Z">>
LowerLetters ==
  <<"a", "b", "c", "d", "e", "f", "g", "h", "i", "j", "k", "l", "m",
    "n", "o", "p", "q", "r", "s", "t", "u", "v", "w", "x", "y", "z">>

\* the letter of to at index i, c itself when i is 0
LetterAt(to, i, c) == IF i > 0 THEN to[i] ELSE c

ToLowerChar(c) == LetterAt(LowerLetters, IndexOf(UpperLetters, c), c)

ToUpperChar(c) == LetterAt(UpperLetters, IndexOf(LowerLetters, c), c)

\* strings.ToLower
ToLower(s) == [i \in 1..Len(s) |-> ToLowerChar(s[i])]

\* strings.Replace(val, "_", "", -1)
StripUnderscores(s) == SelectSeq(s, LAMBDA c : c # "_")

\* val[n:]
Drop(s, n) == SubSeq(s, n + 1, Len(s))

\* strings.HasPrefix
HasPrefix(s, p) == Len(s) >= Len(p) /\ SubSeq(s, 1, Len(p)) = p

\* strings.Contains(val, ":")
Contains(s, c) == \E i \in 1..Len(s) : s[i] = c

\* strings.Split(val, ":"): the groups between the separators, in order
RECURSIVE Split(_, _)
Split(s, c) ==
  IF ~Contains(s, c) THEN <<s>>
  ELSE LET i == CHOOSE k \in 1..Len(s) : s[k] = c /\ \A j \in 1..(k - 1) : s[j] # c
       IN  <<SubSeq(s, 1, i - 1)>> \o Split(Drop(s, i), c)

-----------------------------------------------------------------------------
(* Package strconv.  A number too large for TLC's integers is never        *)
(* computed: the range check of ParseUint and ParseInt compares digit      *)
(* sequences, and the value is built only when the text is in range.       *)

Zeros(n) == [i \in 1..n |-> 0]

RECURSIVE StripZeros(_)
StripZeros(ds) ==
  IF Len(ds) > 0 /\ ds[1] = 0 THEN StripZeros(Tail(ds)) ELSE ds

\* the order of two numbers given by their digits: -1, 0 or 1
CmpDigits(a, b) ==
  LET x == StripZeros(a)
      y == StripZeros(b)
  IN  IF Len(x) < Len(y) THEN -1
      ELSE IF Len(x) > Len(y) THEN 1
      ELSE IF x = y THEN 0
      ELSE LET i == CHOOSE k \in 1..Len(x) :
                      x[k] # y[k] /\ \A j \in 1..(k - 1) : x[j] = y[j]
           IN  IF x[i] < y[i] THEN -1 ELSE 1

\* the digits of 2^64 in the bases resolve_uint asks for
Limit64(base) ==
  CASE base = 2 -> <<1>> \o Zeros(64)
    [] base = 8 -> <<2>> \o Zeros(21)
    [] base = 16 -> <<1>> \o Zeros(16)
    [] OTHER -> <<1, 8, 4, 4, 6, 7, 4, 4, 0, 7, 3, 7, 0, 9, 5, 5, 1, 6, 1, 6>>

\* the digits of 2^63 in the bases resolve_int asks for
Limit63(base) ==
  CASE base = 2 -> <<1>> \o Zeros(63)
    [] base = 8 -> <<1>> \o Zeros(21)
    [] base = 16 -> <<8>> \o Zeros(15)
    [] OTHER -> <<9, 2, 2, 3, 3, 7, 2, 0, 3, 6, 8, 5, 4, 7, 7, 5, 8, 0, 8>>

DigitVals(s) == [i \in 1..Len(s) |-> DigitVal(s[i])]

ValidDigits(s, base) == Len(s) > 0 /\ \A i \in 1..Len(s) : DigitVal(s[i]) < base

RECURSIVE Horner(_, _, _)
Horner(ds, base, acc) ==
  IF ds = <<>> THEN acc ELSE Horner(Tail(ds), base, acc * base + ds[1])

\* strconv.ParseUint(s, base, 64) with base # 0: digits only, no sign, no
\* prefix, no underscore
ParseUint(s, base) ==
  IF ~ValidDigits(s, base) THEN [err |-> "syntax", v |-> 0]
  ELSE IF CmpDigits(DigitVals(s), Limit64(base)) >= 0 THEN [err |-> "range", v |-> 0]
  ELSE [err |-> "nil", v |-> Horner(DigitVals(s), base, 0)]

\* strconv.ParseInt(s, base, 64) with base # 0: one optional sign of its own,
\* then the digits
ParseInt(s, base) ==
  IF s = <<>> THEN [err |-> "syntax", v |-> 0]
  ELSE
    LET neg == s[1] = "-"
        body == IF s[1] \in {"+", "-"} THEN Tail(s) ELSE s
        cmp == CmpDigits(DigitVals(body), Limit63(base))
    IN  IF ~ValidDigits(body, base) THEN [err |-> "syntax", v |-> 0]
        ELSE IF (~neg /\ cmp >= 0) \/ (neg /\ cmp > 0) THEN [err |-> "range", v |-> 0]
        ELSE [err |-> "nil",
              v |-> (IF neg THEN -1 ELSE 1) * Horner(DigitVals(body), base, 0)]

-----------------------------------------------------------------------------
(* Values and targets (package reflect).                                   *)

Nil == [t |-> "nil"]
StringV(s) == [t |-> "string", s |-> s]
BoolV(b) == [t |-> "bool", b |-> b]
IntV(n) == [t |-> "int", i |-> n]
UintV(n) == [t |-> "uint", u |-> n]
\* a finite float num / 10^scale, kept in lowest decimal terms
FloatV(num, scale) == [t |-> "float", k |-> "fin", num |-> num, scale |-> scale]
InfV(sign) == [t |-> "float", k |-> "inf", num |-> sign, scale |-> 0]
NaNV == [t |-> "float", k |-> "nan", num |-> 0, scale |-> 0]
\* a time.Time: the instant (seconds since 1970 UTC, nanoseconds) and the
\* offset of its zone
TimeV(unix, nsec, off) == [t |-> "time", unix |-> unix, nsec |-> nsec, off |-> off]
\* time.Time{}, the zero time (year 1, before anything the model computes)
ZeroTime == [t |-> "zerotime"]
BytesV(bs) == [t |-> "bytes", bs |-> bs]

\* what the result of a converter is: a value to store, an error returned, or
\* a run-time panic
Ok(v) == [o |-> "ok", v |-> v]
Err == [o |-> "err"]
Panic == [o |-> "panic"]

IntKinds == {"Int8", "Int16", "Int64"}
UintKinds == {"Uint8", "Uint16", "Uint64"}
FloatKinds == {"Float32", "Float64"}
\* Struct is time.Time, Bytes is []byte, Slice is any other slice type and Map
\* stands for the kinds the switch of resolve has no case for
Kinds ==
  {"String", "Bool", "Interface", "Struct", "Bytes", "Slice", "Map"}
    \cup IntKinds \cup UintKinds \cup FloatKinds

\* v.Type().Bits()
Bits(k) ==
  CASE k \in {"Int8", "Uint8"} -> 8
    [] k \in {"Int16", "Uint16"} -> 16
    [] k = "Float32" -> 32
    [] OTHER -> 64

\* reflect.Zero(v.Type())
Zero(k) ==
  CASE k = "String" -> StringV(<<>>)
    [] k = "Bool" -> BoolV(FALSE)
    [] k \in IntKinds -> IntV(0)
    [] k \in UintKinds -> UintV(0)
    [] k \in FloatKinds -> FloatV(0, 0)
    [] k = "Struct" -> ZeroTime
    [] OTHER -> Nil

\* v.OverflowInt(x): x does not fit the width of the target
OverflowInt(k, x) ==
  IF Bits(k) = 64 THEN FALSE
  ELSE x < -(2 ^ (Bits(k) - 1)) \/ x > 2 ^ (Bits(k) - 1) - 1

\* v.OverflowUint(x)
OverflowUint(k, x) ==
  IF Bits(k) = 64 THEN FALSE ELSE x > 2 ^ Bits(k) - 1

\* v.SetInt(x): the low bits of x, as the target's type reads them
SetInt(k, x) ==
  IF Bits(k) = 64 THEN IntV(x)
  ELSE IntV(((x + 2 ^ (Bits(k) - 1)) % (2 ^ Bits(k))) - 2 ^ (Bits(k) - 1))

\* v.SetUint(x)
SetUint(k, x) ==
  IF Bits(k) = 64 THEN UintV(x) ELSE UintV(x % (2 ^ Bits(k)))

-----------------------------------------------------------------------------
(* The tables of init.                                                     *)

bool_values ==
  [w \in {<<"y">>, <<"y", "e", "s">>, <<"n">>, <<"n", "o">>,
          <<"t", "r", "u", "e">>, <<"f", "a", "l", "s", "e">>,
          <<"o", "n">>, <<"o", "f", "f">>}
     |-> w \in {<<"y">>, <<"y", "e", "s">>, <<"t", "r", "u", "e">>, <<"o", "n">>}]

null_values ==
  {<<"~">>, <<"n", "u", "l", "l">>, <<"N", "u", "l", "l">>,
   <<"N", "U", "L", "L">>, <<>>}

signs == {"-", "+"}
nulls == {"~", "n", "N"}
bools_no_upper_o == {"t", "T", "f", "F", "y", "Y", "n", "N", "o"}
bools == {"t", "T", "f", "F", "y", "Y", "n", "N", "o", "O"}

-----------------------------------------------------------------------------
(* The converters.                                                         *)

resolve_bool(val) ==
  IF ToLower(val) \in DOMAIN bool_values
  THEN Ok(BoolV(bool_values[ToLower(val)]))
  ELSE Err

\* the loop of the sexagesimal branch of resolve_int, from group j down
RECURSIVE SexaInt(_, _, _, _, _)
SexaInt(k, digits, j, bes, value) ==
  IF j < 1 THEN Ok(value)
  ELSE LET p == ParseInt(digits[j], DecimalBase)
       IN  IF p.err # "nil" \/ OverflowInt(k, p.v * bes) THEN Err
           ELSE SexaInt(k, digits, j - 1, bes * SexaBase, value + p.v * bes)

\* lines 118-126: the base the prefix of val chooses, 0 when there is none
PrefixBase(val) ==
  IF HasPrefix(val, <<"0", "b">>) THEN 2
  ELSE IF HasPrefix(val, <<"0", "x">>) THEN 16
  ELSE IF val[1] = "0" THEN 8
  ELSE 0

\* val without the prefix of the base
AfterPrefix(val, base) ==
  IF base \in {2, 16} THEN Drop(val, 2)
  ELSE IF base = 8 THEN Drop(val, 1)
  ELSE val

\* lines 145-152 of resolve_int: the parsed body, its sign applied
IntResult(k, p, sign) ==
  IF p.err # "nil" \/ OverflowInt(k, p.v * sign) THEN Err
  ELSE Ok(SetInt(k, p.v * sign))

\* lines 140-142 of resolve_int: the sum r of the loop, its sign applied
SexaIntResult(k, r, sign) ==
  IF r.o = "err" THEN Err ELSE Ok(SetInt(k, r.v * sign))

\* lines 112-152 of resolve_int: val is the text after underscores and sign
IntBody(k, val, sign) ==
  IF val = <<"0">> THEN Ok(Zero(k))
  ELSE IF val = <<>> THEN Panic
  ELSE IF PrefixBase(val) = 0 /\ Contains(val, ":")
  THEN SexaIntResult(k, SexaInt(k, Split(val, ":"), Len(Split(val, ":")), 1, 0), sign)
  ELSE IF PrefixBase(val) = 0
  THEN IntResult(k, ParseInt(val, DecimalBase), sign)
  ELSE IntResult(k, ParseInt(AfterPrefix(val, PrefixBase(val)), PrefixBase(val)), sign)

\* lines 104-110: the sign a leading character gives
SignOf(val) == IF val[1] = "-" THEN -1 ELSE 1

\* lines 105-110: val without its leading sign
AfterSign(val) == IF val[1] \in {"-", "+"} THEN Tail(val) ELSE val

\* lines 101-110 of resolve_int: val is the text after underscores are gone
IntSigned(k, val) ==
  IF val = <<>> THEN Panic ELSE IntBody(k, AfterSign(val), SignOf(val))

resolve_int(val, k) == IntSigned(k, StripUnderscores(val))

\* the loop of the sexagesimal branch of resolve_uint, from group j down
RECURSIVE SexaUint(_, _, _, _, _)
SexaUint(k, digits, j, bes, value) ==
  IF j < 1 THEN Ok(value)
  ELSE LET p == ParseUint(digits[j], DecimalBase)
       IN  IF p.err # "nil" \/ OverflowUint(k, p.v * bes) THEN Err
           ELSE SexaUint(k, digits, j - 1, bes * SexaBase, value + p.v * bes)

\* lines 199-205 of resolve_uint: the parsed body
UintResult(k, p) ==
  IF p.err # "nil" \/ OverflowUint(k, p.v) THEN Err ELSE Ok(SetUint(k, p.v))

\* lines 195-196 of resolve_uint: the sum r of the loop
SexaUintResult(k, r) ==
  IF r.o = "err" THEN Err ELSE Ok(SetUint(k, r.v))

\* lines 167-205 of resolve_uint: val is the text after underscores and "+"
UintBody(k, val) ==
  IF val = <<"0">> THEN Ok(Zero(k))
  ELSE IF val = <<>> THEN Panic
  ELSE IF PrefixBase(val) = 0 /\ Contains(val, ":")
  THEN SexaUintResult(k, SexaUint(k, Split(val, ":"), Len(Split(val, ":")), 1, 0))
  ELSE IF PrefixBase(val) = 0
  THEN UintResult(k, ParseUint(val, DecimalBase))
  ELSE UintResult(k, ParseUint(AfterPrefix(val, PrefixBase(val)), PrefixBase(val)))

\* lines 156-165 of resolve_uint: val is the text after underscores are gone
UintSigned(k, val) ==
  IF val = <<>> THEN Panic
  ELSE IF val[1] = "-" THEN Err
  ELSE UintBody(k, IF val[1] = "+" THEN Tail(val) ELSE val)

resolve_uint(val, k) == UintSigned(k, StripUnderscores(val))

-----------------------------------------------------------------------------
(* Floats.  A finite float is the exact decimal num / 10^scale; the        *)
(* rounding of float64 and float32 is not modelled.  strconv.ParseFloat is *)
(* modelled on the characters of the model's texts, none of which opens an *)
(* exponent, a hexadecimal mantissa or one of the words inf, infinity, nan.*)

RECURSIVE Normalize(_, _)
Normalize(num, scale) ==
  IF num = 0 THEN FloatV(0, 0)
  ELSE IF scale > 0 /\ num % 10 = 0 THEN Normalize(num \div 10, scale - 1)
  ELSE FloatV(num, scale)

\* n * bes for a float n and a whole number bes
FloatScale(x, bes) ==
  IF x.k = "fin" THEN Normalize(x.num * bes, x.scale) ELSE x

\* -x
FloatNeg(x) ==
  IF x.k = "fin" THEN FloatV(-x.num, x.scale)
  ELSE IF x.k = "inf" THEN InfV(-x.num)
  ELSE x

\* x + y for finite floats
FloatAdd(x, y) ==
  LET sc == IF x.scale > y.scale THEN x.scale ELSE y.scale
  IN  Normalize(x.num * 10 ^ (sc - x.scale) + y.num * 10 ^ (sc - y.scale), sc)

RECURSIVE NumDigits(_)
NumDigits(n) == IF n < 10 THEN 1 ELSE 1 + NumDigits(n \div 10)

\* v.OverflowFloat(x): a finite x beyond math.MaxFloat32 (3.4e38) does not fit
\* a float32; nothing overflows a float64
OverflowFloat(k, x) ==
  /\ Bits(k) = 32
  /\ x.k = "fin"
  /\ NumDigits(IF x.num < 0 THEN -x.num ELSE x.num) - x.scale > 39

\* the digits after the point of body: 0 when it has none
ScaleOf(body, points) ==
  IF points = {} THEN 0 ELSE Len(body) - (CHOOSE i \in points : TRUE)

\* the mantissa body, its digits ds and the places of its points
Mantissa(body, ds, points, neg) ==
  IF Cardinality(points) > 1 \/ ds = <<>> \/ Len(ds) + Cardinality(points) # Len(body)
  THEN [err |-> "syntax", v |-> FloatV(0, 0)]
  ELSE [err |-> "nil",
        v |-> Normalize((IF neg THEN -1 ELSE 1) * Horner(DigitVals(ds), 10, 0),
                        ScaleOf(body, points))]

Unsigned(body, neg) ==
  Mantissa(body, SelectSeq(body, IsDigit), {i \in 1..Len(body) : body[i] = "."}, neg)

\* strconv.ParseFloat(s, bits): an optional sign, digits with at most one
\* point, at least one digit
ParseFloat(s) ==
  IF s # <<>> /\ s[1] \in {"+", "-"} THEN Unsigned(Tail(s), s[1] = "-")
  ELSE Unsigned(s, FALSE)

\* value *= float64(sign)
FloatSign(x, sign) == IF sign = -1 THEN FloatNeg(x) ELSE x

\* the body of the loop of the sexagesimal branch, for the parsed group p
RECURSIVE SexaFloat(_, _, _, _, _)
SexaFloatStep(k, digits, j, bes, value, p) ==
  IF p.err # "nil" \/ OverflowFloat(k, FloatScale(p.v, bes)) THEN Err
  ELSE SexaFloat(k, digits, j - 1, bes * SexaBase, FloatAdd(value, FloatScale(p.v, bes)))

\* the loop of the sexagesimal branch of resolve_float, from group j down
SexaFloat(k, digits, j, bes, value) ==
  IF j < 1 THEN Ok(value)
  ELSE SexaFloatStep(k, digits, j, bes, value, ParseFloat(digits[j]))

\* lines 237 and 247: the sum r of the loop, its sign applied
SexaFloatResult(r, sign) ==
  IF r.o = "err" THEN Err ELSE Ok(FloatSign(r.v, sign))

\* lines 240-247: the parsed text p, its sign applied
FloatResult(k, p, sign) ==
  IF p.err # "nil" \/ OverflowFloat(k, FloatSign(p.v, sign)) THEN Err
  ELSE Ok(FloatSign(p.v, sign))

\* lines 220-247 of resolve_float: val is the text after underscores and sign
FloatBody(k, val, sign) ==
  IF ToLower(val) = <<".", "i", "n", "f">> THEN Ok(InfV(sign))
  ELSE IF ToLower(val) = <<".", "n", "a", "n">> THEN Ok(NaNV)
  ELSE IF Contains(val, ":")
  THEN SexaFloatResult(
         SexaFloat(k, Split(val, ":"), Len(Split(val, ":")), 1, FloatV(0, 0)), sign)
  ELSE FloatResult(k, ParseFloat(val), sign)

\* lines 209-218 of resolve_float: val is the text after underscores are gone
FloatSigned(k, val) ==
  IF val = <<>> THEN Panic ELSE FloatBody(k, AfterSign(val), SignOf(val))

resolve_float(val, k) == FloatSigned(k, StripUnderscores(val))

-----------------------------------------------------------------------------
(* Timestamps: the two regular expressions of init, matched by hand, and   *)
(* time.Date.                                                              *)

Blanks == {" ", "\t"}
DigitSet == {DecDigits[i] : i \in 1..Len(DecDigits)}

\* the character at position p, "" past the end
At(s, p) == IF p >= 1 /\ p <= Len(s) THEN s[p] ELSE ""

\* the length of the longest run of characters of set from position p on
RECURSIVE Run(_, _, _)
Run(s, p, set) == IF At(s, p) \in set THEN 1 + Run(s, p + 1, set) ELSE 0

\* strconv.Atoi of a run of digits, its error dropped: 0 for the empty text
Atoi(s) == IF ValidDigits(s, 10) THEN Horner(DigitVals(s), 10, 0) ELSE 0

\* a group followed by what the rest of the expression matched; <<>> when the
\* rest did not match
Then(group, rest) == IF rest = <<>> THEN <<>> ELSE <<group>> \o rest

NoGroup == <<>>

\* (?::([0-9][0-9])?)?$ at position r, after the offset hours m8: groups 8, 9
OffsetMinutes(s, r, ltm, m8) ==
  IF At(s, r) = ":" /\ ltm \in {0, 2} /\ r + ltm = Len(s)
  THEN <<m8, SubSeq(s, r + 1, r + ltm)>>
  ELSE <<>>

\* ([-+][0-9][0-9]?) at position q, with lth digits after the sign
OffsetHours(s, q, lth) ==
  IF lth \notin {1, 2} THEN <<>>
  ELSE IF q + lth = Len(s) THEN <<SubSeq(s, q, q + lth), NoGroup>>
  ELSE OffsetMinutes(s, q + lth + 1, Run(s, q + lth + 2, DigitSet),
                     SubSeq(s, q, q + lth))

\* (?:Z|([-+][0-9][0-9]?)...) at position q: groups 8, 9
ZoneAt(s, q) ==
  IF At(s, q) = "Z" THEN (IF q = Len(s) THEN <<NoGroup, NoGroup>> ELSE <<>>)
  ELSE IF At(s, q) \in {"-", "+"} THEN OffsetHours(s, q, Run(s, q + 1, DigitSet))
  ELSE <<>>

\* (?:[ \t]*(?:Z|...))?$ at position pz: groups 8, 9
Zone(s, pz) ==
  IF pz > Len(s) THEN <<NoGroup, NoGroup>>
  ELSE ZoneAt(s, pz + Run(s, pz, Blanks))

\* (?:\.([0-9]*))? at position pf, then the zone: groups 7, 8, 9
Fraction(s, pf) ==
  IF At(s, pf) = "."
  THEN Then(SubSeq(s, pf + 1, pf + Run(s, pf + 1, DigitSet)),
            Zone(s, pf + 1 + Run(s, pf + 1, DigitSet)))
  ELSE Then(NoGroup, Zone(s, pf))

\* ([0-9][0-9]) at position p, then the rest: groups 6..9
Seconds(s, p) ==
  IF Run(s, p, DigitSet) = 2
  THEN Then(SubSeq(s, p, p + 1), Fraction(s, p + 2))
  ELSE <<>>

\* ([0-9][0-9]): at position p: groups 5..9
Minutes(s, p) ==
  IF Run(s, p, DigitSet) = 2 /\ At(s, p + 2) = ":"
  THEN Then(SubSeq(s, p, p + 1), Seconds(s, p + 3))
  ELSE <<>>

\* ([0-9][0-9]?): at position p, a run of lh digits: groups 4..9
Hours(s, p, lh) ==
  IF lh \in {1, 2} /\ At(s, p + lh) = ":"
  THEN Then(SubSeq(s, p, p + lh - 1), Minutes(s, p + lh + 1))
  ELSE <<>>

\* (?:[Tt]|[ \t]+) at position p, a run of ws blanks: groups 4..9
Separator(s, p, ws) ==
  IF At(s, p) \in {"T", "t"} THEN Hours(s, p + 1, Run(s, p + 1, DigitSet))
  ELSE IF ws > 0 THEN Hours(s, p + ws, Run(s, p + ws, DigitSet))
  ELSE <<>>

\* ([0-9][0-9]?) at position p, a run of ld digits, then the optional time of
\* day: groups 3..9
Day(s, p, ld) ==
  IF ld \notin {1, 2} THEN <<>>
  ELSE IF p + ld > Len(s)
  THEN <<SubSeq(s, p, p + ld - 1), NoGroup, NoGroup, NoGroup, NoGroup, NoGroup, NoGroup>>
  ELSE Then(SubSeq(s, p, p + ld - 1), Separator(s, p + ld, Run(s, p + ld, Blanks)))

\* ([0-9][0-9]?)- at position p, a run of lm digits: groups 2..9
Month(s, p, lm) ==
  IF lm \in {1, 2} /\ At(s, p + lm) = "-"
  THEN Then(SubSeq(s, p, p + lm - 1), Day(s, p + lm + 1, Run(s, p + lm + 1, DigitSet)))
  ELSE <<>>

\* FindStringSubmatch of timestamp_regexp: <<>> when the text does not match,
\* else the groups 1..9, a group that took no part being empty
TimestampMatch(s) ==
  IF Run(s, 1, DigitSet) = 4 /\ At(s, 5) = "-"
  THEN Then(SubSeq(s, 1, 4), Month(s, 6, Run(s, 6, DigitSet)))
  ELSE <<>>

\* FindStringSubmatch of ymd_regexp: <<>> or the groups 1..3
YmdDay(s, p, ld) ==
  IF ld \in {1, 2} /\ p + ld > Len(s) THEN <<SubSeq(s, p, p + ld - 1)>> ELSE <<>>

YmdMonth(s, p, lm) ==
  IF lm \in {1, 2} /\ At(s, p + lm) = "-"
  THEN Then(SubSeq(s, p, p + lm - 1), YmdDay(s, p + lm + 1, Run(s, p + lm + 1, DigitSet)))
  ELSE <<>>

YmdMatch(s) ==
  IF Run(s, 1, DigitSet) = 4 /\ At(s, 5) = "-"
  THEN Then(SubSeq(s, 1, 4), YmdMonth(s, 6, Run(s, 6, DigitSet)))
  ELSE <<>>

\* the days from 1970-01-01 to day d of month m (1..12) of year y0, counted
\* in years y that begin in March
CivilDays(y, m, d) ==
  (y \div 400) * 146097 + (y % 400) * 365 + (y % 400) \div 4 - (y % 400) \div 100
    + (153 * ((m + 9) % 12) + 2) \div 5 + d - 1 - 719468

\* days from 1970-01-01 to the given day of the proleptic Gregorian calendar,
\* a month outside 1..12 or a day outside the month carried over as time.Date
\* carries them
DaysFromCivil(year, month, day) ==
  CivilDays(year + ((month - 1) \div 12)
              - (IF ((month - 1) % 12) + 1 <= 2 THEN 1 ELSE 0),
            ((month - 1) % 12) + 1, day)

\* time.Date(year, month, day, hour, min, sec, nsec, loc), loc given by its
\* offset east of UTC in seconds
Date(year, month, day, hour, min, sec, nsec, off) ==
  TimeV(DaysFromCivil(year, month, day) * 86400 + hour * 3600 + min * 60 + sec
          + (nsec \div 1000000000) - off,
        nsec % 1000000000,
        off)

\* lines 287-290: the offset of hr hours and min minutes, signed
SignedOffset(sign, hr, min) ==
  IF sign = "-" THEN -((hr * 60 + min) * 60) ELSE (hr * 60 + min) * 60

\* lines 278-293 of resolve_time: the offset of the zone, in seconds, from the
\* groups 8 and 9; the min of that block is a variable of its own
ZoneOffset(m8, m9) ==
  IF m8 = NoGroup THEN 0
  ELSE SignedOffset(m8[1], Atoi(Tail(m8)), IF m9 # NoGroup THEN Atoi(m9) ELSE 0)

\* the minute time.Date would get if the min of the zone block were the min of
\* the time of day
ClockMinuteShared(m5, m8, m9) ==
  IF m8 = NoGroup THEN Atoi(m5)
  ELSE IF m9 # NoGroup THEN Atoi(m9)
  ELSE 0

\* lines 269 and 294 of resolve_time: the minute handed to time.Date is the one
\* of the time of day, whatever the zone block did with its own min
ClockMinute(m5, m8, m9) == Atoi(m5)

\* lines 272-276
Nanoseconds(m7) == IF m7 # NoGroup THEN Atoi(m7) * 1000000 ELSE 0

\* lines 254-258
YmdTime(m) == Ok(Date(Atoi(m[1]), Atoi(m[2]), Atoi(m[3]), 0, 0, 0, 0, 0))

\* lines 260-294
FullTime(m) ==
  IF m = <<>> THEN Err
  ELSE Ok(Date(Atoi(m[1]), Atoi(m[2]), Atoi(m[3]),
               Atoi(m[4]), ClockMinute(m[5], m[8], m[9]), Atoi(m[6]),
               Nanoseconds(m[7]), ZoneOffset(m[8], m[9])))

resolve_time(val) ==
  IF YmdMatch(val) # <<>> THEN YmdTime(YmdMatch(val))
  ELSE FullTime(TimestampMatch(val))

-----------------------------------------------------------------------------
(* base64.StdEncoding.Decode.                                              *)

B64Chars == UpperLetters \o LowerLetters \o DecDigits \o <<"+", "/">>

B64Val(c) == IndexOf(B64Chars, c) - 1

\* the bytes of one quantum of four characters, <<-1>> when it is corrupt;
\* padding is accepted in the last quantum only
Quantum(q, last) ==
  LET a == B64Val(q[1])
      b == B64Val(q[2])
      c == B64Val(q[3])
      d == B64Val(q[4])
      bad == <<-1>>
  IN  IF a < 0 \/ b < 0 THEN bad
      ELSE IF q[3] = "=" /\ q[4] = "="
      THEN IF last THEN <<(a * 4 + b \div 16) % 256>> ELSE bad
      ELSE IF c < 0 THEN bad
      ELSE IF q[4] = "="
      THEN IF last THEN <<(a * 4 + b \div 16) % 256, (b * 16 + c \div 4) % 256>>
           ELSE bad
      ELSE IF d < 0 THEN bad
      ELSE <<(a * 4 + b \div 16) % 256, (b * 16 + c \div 4) % 256, (c * 64 + d) % 256>>

RECURSIVE DecodeFrom(_, _)
DecodeFrom(s, acc) ==
  IF s = <<>> THEN Ok(BytesV(acc))
  ELSE IF Len(s) < 4 THEN Err
  ELSE LET bs == Quantum(SubSeq(s, 1, 4), Len(s) = 4)
       IN  IF bs = <<-1>> THEN Err ELSE DecodeFrom(Drop(s, 4), acc \o bs)

\* lines 76-82 of resolve: the decoded bytes, or the error of Decode
resolve_binary(val) == DecodeFrom(val, <<>>)

-----------------------------------------------------------------------------
(* Dynamic inference.                                                      *)

\* the float tried before the integer
FloatFirst(i, f, tm, sign) ==
  IF f.o # "err" THEN f
  ELSE IF i.o # "err" THEN i
  ELSE IF ~sign /\ tm.o # "err" THEN tm
  ELSE Err

\* lines 318-332: the results i, f, tm of the three converters, taken in the
\* order the case tries them
FirstSuccess(i, f, tm, sign) ==
  IF i.o # "err" THEN i
  ELSE IF f.o # "err" THEN f
  ELSE IF ~sign /\ tm.o # "err" THEN tm
  ELSE Err

\* lines 314-332: the case of a sign or a digit
NumericAttempts(val, sign) ==
  FirstSuccess(resolve_int(val, "Int64"), resolve_float(val, "Float64"),
               resolve_time(val), sign)

\* lines 333-340: the case of the characters of nulls
NullCase(val) ==
  IF val \in null_values THEN Ok(Nil) ELSE resolve_bool(val)

\* lines 313-351: the switch on the first character c; Err when no case
\* returned and the text itself is the result
FirstCharSwitch(val, c) ==
  IF c \in signs \/ IsDigit(c) THEN NumericAttempts(val, c \in signs)
  ELSE IF c \in nulls THEN NullCase(val)
  ELSE IF c = "." THEN resolve_float(val, "Float64")
  ELSE IF c \in bools THEN resolve_bool(val)
  ELSE Err

\* lines 306-309: what is decided before the first character is looked at
SkipsInference(ev) == Len(ev.tag) = 0 /\ ~ev.implicit

\* line 353: the text itself when the switch returned nothing
OrText(r, val) == IF r.o = "err" THEN Ok(StringV(val)) ELSE r

resolveInterface(ev) ==
  IF Len(ev.value) = 0 THEN Ok(Nil)
  ELSE IF SkipsInference(ev) THEN Ok(StringV(ev.value))
  ELSE OrText(FirstCharSwitch(ev.value, ev.value[1]), ev.value)

-----------------------------------------------------------------------------
(* The dispatcher.                                                         *)

\* a lookup that folds the letter case
IsNullAnyCase(val) == ToLower(val) \in null_values

\* line 52
IsNull(val) == val \in null_values

\* the case of the switch on v.Kind() that resolve takes
KindCase(k) ==
  CASE k = "String" -> "string"
    [] k = "Bool" -> "bool"
    [] k \in IntKinds -> "int"
    [] k \in UintKinds -> "uint"
    [] k \in FloatKinds -> "float"
    [] k = "Interface" -> "interface"
    [] k = "Struct" -> "time"
    [] k \in {"Bytes", "Slice"} -> "slice"
    [] OTHER -> "default"

\* the branch of resolve a call takes
Branch(ev, k) == IF IsNull(ev.value) THEN "null" ELSE KindCase(k)

\* line 69: reflect.ValueOf(nil) is the zero Value, which v.Set rejects
SetInterface(r) == IF r = Ok(Nil) THEN Panic ELSE r

\* lines 57-87 of resolve: the case b of the switch
Convert(ev, k, b) ==
  CASE b = "string" -> Ok(StringV(ev.value))
    [] b = "bool" -> resolve_bool(ev.value)
    [] b = "int" -> resolve_int(ev.value, k)
    [] b = "uint" -> resolve_uint(ev.value, k)
    [] b = "float" -> resolve_float(ev.value, k)
    [] b = "interface" -> SetInterface(resolveInterface(ev))
    [] b = "time" -> resolve_time(ev.value)
    [] b = "slice" -> IF k = "Bytes" THEN resolve_binary(ev.value) ELSE Err
    [] OTHER -> Err

\* resolve(event, v): the value set into v, an error, or a panic
resolve(ev, k) ==
  IF IsNull(ev.value) THEN Ok(Zero(k)) ELSE Convert(ev, k, KindCase(k))

-----------------------------------------------------------------------------
(* The inputs: every text over a small alphabet up to a bounded length,    *)
(* the spellings of the tables in every letter case, timestamps rendered   *)
(* from their fields, and a list of longer texts.                          *)

SeqsUpTo(S, n) == UNION {[1..k -> S] : k \in 0..n}

NumAlphabet == {"+", "-", "_", "0", "1", "2", "8", ":", ".", "x"}
NumTexts == SeqsUpTo(NumAlphabet, MaxLen)

WordAlphabet == {"n", "N", "o", "O", "y", "f", "t", "~"}
WordTexts == SeqsUpTo(WordAlphabet, MaxWordLen)

\* every way of writing w in upper and lower case letters
RECURSIVE CaseVariants(_)
CaseVariants(w) ==
  IF w = <<>> THEN {<<>>}
  ELSE {<<c>> \o r : c \in {ToLowerChar(w[1]), ToUpperChar(w[1])},
                     r \in CaseVariants(Tail(w))}

TableTexts ==
  UNION {CaseVariants(w) : w \in (DOMAIN bool_values) \cup null_values}

\* a number below 100 written with w digits (w = 1 only below 10)
Render(n, w) ==
  IF w = 1 THEN <<DecDigits[n + 1]>>
  ELSE <<DecDigits[(n \div 10) + 1], DecDigits[(n % 10) + 1]>>

\* a year written with its four digits
Render4(n) ==
  <<DecDigits[(n \div 1000) + 1], DecDigits[((n \div 100) % 10) + 1],
    DecDigits[((n \div 10) % 10) + 1], DecDigits[(n % 10) + 1]>>

Years == {2001}

\* the timezones of the generated timestamps: none, Z, or an offset of sign,
\* hours hh written with hw digits, and minutes mm (-1: no ":MM" part,
\* -2: a ":" with nothing after it)
TimeZones ==
  [z : {"none", "Z"}, blank : {0, 1}, sign : {"+"}, hh : {0}, hw : {1}, mm : {-1}]
    \cup [z : {"offset"}, blank : {0}, sign : {"+", "-"}, hh : 0..MaxTzHour,
          hw : {1, 2}, mm : {-2, -1, 0, 30}]
    \cup [z : {"offset"}, blank : {1}, sign : {"-"}, hh : {MaxTzHour},
          hw : {2}, mm : {30}]

\* the fields a full timestamp is rendered from
TimeParts ==
  [y : Years, mo : {12}, mw : {2}, d : {14}, dw : {2},
   sep : {<<"T">>, <<"t">>, <<" ", "\t">>},
   h : {2, 21}, hw : {2}, mi : {7, 59}, se : {43},
   frac : {<<>>, <<".", "1", "0">>},
   tz : TimeZones]
    \cup [y : Years, mo : {1}, mw : {1}, d : {5}, dw : {1}, sep : {<<" ">>},
          h : {2}, hw : {1}, mi : {7}, se : {43}, frac : {<<".">>, <<".", "1">>},
          tz : TimeZones]

RenderZone(z) ==
  (IF z.blank = 1 THEN <<" ">> ELSE <<>>)
    \o (IF z.z = "none" THEN <<>>
        ELSE IF z.z = "Z" THEN <<"Z">>
        ELSE <<z.sign>> \o Render(z.hh, z.hw)
               \o (IF z.mm = -1 THEN <<>>
                   ELSE IF z.mm = -2 THEN <<":">>
                   ELSE <<":">> \o Render(z.mm, 2)))

RenderDate(y, mo, mw, d, dw) ==
  Render4(y) \o <<"-">> \o Render(mo, mw) \o <<"-">> \o Render(d, dw)

RenderTime(p) ==
  RenderDate(p.y, p.mo, p.mw, p.d, p.dw) \o p.sep
    \o Render(p.h, p.hw) \o <<":">> \o Render(p.mi, 2) \o <<":">> \o Render(p.se, 2)
    \o p.frac \o RenderZone(p.tz)

\* a blank before nothing is a trailing blank: such a text is no timestamp
WellFormedParts == {p \in TimeParts : ~(p.tz.z = "none" /\ p.tz.blank = 1)}

\* each well-formed timestamp with the fields it was rendered from
TimePairs == {<<RenderTime(p), p>> : p \in WellFormedParts}

TimeTexts == {RenderTime(p) : p \in TimeParts}

DateParts == [y : Years, mo : {1, 12}, mw : {1, 2}, d : {5, 14}, dw : {1, 2}]

DateTexts ==
  {RenderDate(p.y, p.mo, p.mw, p.d, p.dw) :
     p \in {q \in DateParts : (q.mo < 10 \/ q.mw = 2) /\ (q.d < 10 \/ q.dw = 2)}}

LongTexts ==
  {<<"0", "b", "1", "0", "1">>, <<"0", "1", "7">>, <<"0", "x", "1", "F">>,
   <<"1", ":", "2">>, <<"-", "1", "0">>, <<"-", "1">>,
   <<".", "i", "n", "f">>, <<"-", ".", "i", "n", "f">>,
   <<".", "n", "a", "n">>, <<".", "N", "a", "N">>,
   <<"+", ".", "I", "n", "f">>, <<"1", ":", "3", "0", ".", "5">>,
   <<"-", "-", "5">>, <<"+", "-", "5">>, <<"0", "x", "-", "1", "F">>,
   <<"1", ":", "-", "2">>, <<"0", ":", "3", "0">>,
   <<"0", "1", ":", "3", "0">>,
   <<"-", "2", "0", "0", "1", "-", "1", "2", "-", "1", "5">>,
   <<"+", "2", "0", "0", "1", "-", "1", "2", "-", "1", "5">>,
   <<"2", "0", "0", "1", "-", "1", "2", "-", "1", "5", "x">>,
   <<"-", "2", ":", "9">>, <<"1", ":", "6", "8">>,
   <<"1", "9", "0", ":", "2", "0", ":", "3", "0">>, <<"A", "Q", "I", "D">>,
   <<"A", "Q", "I", "=">>, <<"A", "Q", "=", "=">>, <<"A", "=", "=", "=">>,
   <<"A", "Q", "=", "D">>, <<"A", "Q", "I", "D", "B", "A", "=", "=">>,
   <<"n", "o", "t", "-", "a", "-", "d", "a", "t", "e">>, <<"n", "i", "l">>,
   <<"n", "o", "p", "e">>, <<"t", "r", "u", "t", "h">>, <<"o", "n", "n">>,
   <<"y", "e", "s", "s">>, <<"1", "2", "3", "a", "b", "c">>}

\* digit strings beyond 64 bits, for the integer targets: the exact value of a
\* float that long is not computed
BigTexts ==
  {
   <<"9", "9", "9", "9", "9", "9", "9", "9", "9", "9", "9", "9", "9", "9", "9", "9", "9", "9", "9", "9">>,
   <<"1", "8", "4", "4", "6", "7", "4", "4", "0", "7", "3", "7", "0", "9", "5", "5", "1", "6", "1", "6">>,
   <<"-", "9", "2", "2", "3", "3", "7", "2", "0", "3", "6", "8", "5", "4", "7", "7", "5", "8", "0", "8">>,
   <<"+", "1", "8", "4", "4", "6", "7", "4", "4", "0", "7", "3", "7", "0", "9", "5", "5", "1", "6", "1", "6">>,
   <<"1", ":", "1", "8", "4", "4", "6", "7", "4", "4", "0", "7", "3", "7", "0", "9", "5", "5", "1", "6", "1", "6">>}

Texts == NumTexts \cup WordTexts \cup TableTexts \cup TimeTexts \cup DateTexts \cup LongTexts

Tags == {<<>>, <<"!", "!", "s", "t", "r">>}

Events == [value : Texts, tag : Tags, implicit : BOOLEAN]

\* the events handed to resolve: tag and implicit are read by the Interface
\* case alone
TypedEvents == [value : Texts, tag : {<<>>}, implicit : {TRUE}]

BigEvents == [value : BigTexts, tag : {<<>>}, implicit : {TRUE}]

\* what a target of kind k holds before a call: a value that is not its zero
Prior(k) ==
  CASE k = "String" -> StringV(<<"p">>)
    [] k = "Bool" -> BoolV(TRUE)
    [] k \in IntKinds -> IntV(7)
    [] k \in UintKinds -> UintV(7)
    [] k \in FloatKinds -> FloatV(7, 0)
    [] k = "Interface" -> StringV(<<"p">>)
    [] k = "Struct" -> TimeV(7, 0, 0)
    [] k = "Bytes" -> BytesV(<<7>>)
    [] OTHER -> [t |-> "other"]

NoEvent == [value |-> <<>>, tag |-> <<>>, implicit |-> TRUE]

-----------------------------------------------------------------------------
(* The state machine: a caller picks a target, calls resolve or            *)
(* resolveInterface once, and looks at what came back.                     *)

Init ==
  /\ pc = "idle"
  /\ op = "none"
  /\ event = NoEvent
  /\ kind \in Kinds
  /\ before = Prior(kind)
  /\ target = Prior(kind)
  /\ outcome = "none"
  /\ path = "none"
  /\ ret = Nil

\* the events a caller hands to resolve for a target of kind k
InputsFor(k) ==
  IF k = "Interface" THEN Events
  ELSE IF k \in IntKinds \cup UintKinds THEN TypedEvents \cup BigEvents
  ELSE TypedEvents

\* err := resolve(event, v)
Resolve ==
  /\ pc = "idle"
  /\ \E ev \in InputsFor(kind) :
       /\ \E r \in {resolve(ev, kind)} :
            /\ outcome' = r.o
            /\ target' = IF r.o = "ok" THEN r.v ELSE target
       /\ event' = ev
       /\ path' = Branch(ev, kind)
  /\ pc' = "done"
  /\ op' = "resolve"
  /\ before' = target
  /\ UNCHANGED <<kind, ret>>

\* x := resolveInterface(event)
Infer ==
  /\ pc = "idle"
  /\ kind = "Interface"
  /\ \E ev \in Events :
       /\ \E r \in {resolveInterface(ev)} :
            /\ outcome' = r.o
            /\ ret' = IF r.o = "ok" THEN r.v ELSE ret
       /\ event' = ev
  /\ pc' = "done"
  /\ op' = "resolveInterface"
  /\ path' = "none"
  /\ before' = target
  /\ UNCHANGED <<kind, target>>

\* the caller is done with the result and sets the target up for the next call
Return ==
  /\ pc = "done"
  /\ pc' = "idle"
  /\ op' = "none"
  /\ event' = NoEvent
  /\ before' = Prior(kind)
  /\ target' = Prior(kind)
  /\ outcome' = "none"
  /\ path' = "none"
  /\ ret' = Nil
  /\ UNCHANGED kind

Next == Resolve \/ Infer \/ Return

Spec == Init /\ [][Next]_vars

-----------------------------------------------------------------------------
(* What the claims speak of, stated apart from the converters.             *)

ResolveDone == pc = "done" /\ op = "resolve"
InferDone == pc = "done" /\ op = "resolveInterface"

\* the text of the call, its underscores stripped
Stripped == StripUnderscores(event.value)

\* the text after underscore stripping and one optional leading sign
Unsigned1(s) == IF s # <<>> /\ s[1] \in {"+", "-"} THEN Tail(s) ELSE s
Body == Unsigned1(Stripped)
Negative == Stripped # <<>> /\ Stripped[1] = "-"

\* the number a run of digits denotes in a base
Denoted(ds, base) == Horner(DigitVals(ds), base, 0)

\* sum of g[i] * 60^(n-1-i), most significant group first
RECURSIVE SexaValue(_, _)
SexaValue(g, acc) ==
  IF g = <<>> THEN acc ELSE SexaValue(Tail(g), acc * 60 + Denoted(g[1], 10))

AllDecimal(g) == \A i \in 1..Len(g) : ValidDigits(g[i], 10)

\* the forms of an integer body: the number it denotes, or -1 when it has none
\* of the forms
FormValue(b) ==
  IF b = <<"0">> THEN 0
  ELSE IF HasPrefix(b, <<"0", "b">>)
  THEN (IF ValidDigits(Drop(b, 2), 2) THEN Denoted(Drop(b, 2), 2) ELSE -1)
  ELSE IF HasPrefix(b, <<"0", "x">>)
  THEN (IF ValidDigits(Drop(b, 2), 16) THEN Denoted(Drop(b, 2), 16) ELSE -1)
  ELSE IF b # <<>> /\ b[1] = "0"
  THEN (IF ValidDigits(Drop(b, 1), 8) THEN Denoted(Drop(b, 1), 8) ELSE -1)
  ELSE IF AllDecimal(Split(b, ":")) THEN SexaValue(Split(b, ":"), 0)
  ELSE -1

\* the mathematical value of the text of the call, sign applied
MathValue == IF Negative THEN -FormValue(Body) ELSE FormValue(Body)

\* the value fits a signed target of kind k
FitsInt(k, x) ==
  Bits(k) = 64 \/ (x >= -(2 ^ (Bits(k) - 1)) /\ x <= 2 ^ (Bits(k) - 1) - 1)

FitsUint(k, x) == Bits(k) = 64 \/ x <= 2 ^ Bits(k) - 1

\* the value of kind k that target holds is one a call can have stored whole
Complete(k, v) ==
  CASE k = "Bool" -> v.t = "bool"
    [] k \in IntKinds -> v.t = "int" /\ FitsInt(k, v.i)
    [] k \in UintKinds -> v.t = "uint" /\ v.u >= 0 /\ FitsUint(k, v.u)
    [] k \in FloatKinds -> v.t = "float"
    [] k = "Struct" -> v.t \in {"time", "zerotime"}
    [] k = "Bytes" -> v.t \in {"bytes", "nil"}
    [] OTHER -> TRUE

TypedKinds ==
  {"Bool", "Struct", "Bytes"} \cup IntKinds \cup UintKinds \cup FloatKinds

-----------------------------------------------------------------------------
(* The claims.                                                             *)

\* C1: resolveInterface returns a value for every text, tag and implicit
\* flag; it never aborts.
C1_InferenceTotal == InferDone => outcome = "ok"

\* C2: resolve into a typed target either succeeds and stores a complete
\* value, or returns an error and leaves the target as it was; there is no
\* third outcome.
C2_TwoOutcomes ==
  (ResolveDone /\ kind \in TypedKinds)
    => \/ outcome = "ok" /\ Complete(kind, target)
       \/ outcome = "err" /\ target = before

\* C3: resolve takes the null path exactly for the five null spellings, and on
\* it sets the target of any kind to the zero value of the kind and returns no
\* error.
C3_Spellings ==
  {<<>>, <<"~">>, <<"n", "u", "l", "l">>, <<"N", "u", "l", "l">>,
   <<"N", "U", "L", "L">>}

C3_NullPath ==
  ResolveDone
    => /\ (path = "null") <=> (event.value \in C3_Spellings)
       /\ (event.value \in C3_Spellings)
            => outcome = "ok" /\ target = Zero(kind) /\ target # before

C3_Witness ==
  /\ ResolveDone
  /\ event.value = <<"N", "u", "l", "l">>
  /\ kind = "Map"
  /\ path = "null"
  /\ outcome = "ok"
  /\ target = Nil

\* C4: with no tag and the implicit flag false, resolveInterface returns the
\* raw text as a String, whatever the text is, the empty text included.
C4_QuotedIsString ==
  (InferDone /\ event.tag = <<>> /\ ~event.implicit)
    => outcome = "ok" /\ ret = StringV(event.value)

\* C5: resolve into a signed integer of width w succeeds exactly when the
\* value the text denotes lies in [-2^(w-1), 2^(w-1)-1], and then stores that
\* value.
C5_IntRange ==
  (ResolveDone /\ kind \in IntKinds /\ path = "int"
     /\ event.value \notin BigTexts /\ FormValue(Body) >= 0
     /\ ~(Body[1] = "0" /\ Contains(Body, ":")))
    => /\ (outcome = "ok") <=> FitsInt(kind, MathValue)
       /\ outcome = "ok" => target = IntV(MathValue)

\* C6: in integer and unsigned resolution a text with ":" is sexagesimal
\* whatever its prefix: the result is the sum of g[i] * 60^(n-1-i) of its
\* decimal groups, also when the text starts with "0".
C6_ColonIsSexagesimal ==
  (ResolveDone /\ kind \in IntKinds \cup UintKinds /\ path \in {"int", "uint"}
     /\ event.value \notin BigTexts
     /\ Contains(Body, ":") /\ AllDecimal(Split(Body, ":"))
     /\ (kind \in UintKinds => ~Negative /\ FitsUint(kind, SexaValue(Split(Body, ":"), 0)))
     /\ (kind \in IntKinds
           => FitsInt(kind, (IF Negative THEN -1 ELSE 1) * SexaValue(Split(Body, ":"), 0))))
    => /\ outcome = "ok"
       /\ kind \in IntKinds
            => target = IntV((IF Negative THEN -1 ELSE 1) * SexaValue(Split(Body, ":"), 0))
       /\ kind \in UintKinds => target = UintV(SexaValue(Split(Body, ":"), 0))

\* C7: a full timestamp resolves to its local date and time of day placed in
\* the zone sign * (hours * 60 + minutes) * 60 seconds east of UTC, minutes
\* being 0 without a ":MM" part and the zone UTC with "Z" or no timezone; the
\* offset's fields leave the time of day alone.
C7_Offset(z) ==
  IF z.z # "offset" THEN 0
  ELSE (IF z.sign = "-" THEN -1 ELSE 1) * (z.hh * 60 + (IF z.mm > 0 THEN z.mm ELSE 0)) * 60

C7_Local(p) ==
  DaysFromCivil(p.y, p.mo, p.d) * 86400 + p.h * 3600 + p.mi * 60 + p.se

C7_ZoneOffset ==
  (ResolveDone /\ kind = "Struct" /\ event.value \in TimeTexts)
    => \A tp \in TimePairs :
         tp[1] = event.value
           => /\ outcome = "ok"
              /\ target.t = "time"
              /\ target.off = C7_Offset(tp[2].tz)
              /\ target.unix = C7_Local(tp[2]) - C7_Offset(tp[2].tz)

C7_Witness ==
  /\ ResolveDone
  /\ kind = "Struct"
  /\ event.value =
       <<"2", "0", "0", "1", "-", "1", "2", "-", "1", "4", "t",
         "2", "1", ":", "5", "9", ":", "4", "3", ".", "1", "0",
         "-", "0", "1", ":", "3", "0">>
  /\ outcome = "ok"
  /\ target.off = -5400
  /\ target.unix = C7_Local([y |-> 2001, mo |-> 12, d |-> 14, h |-> 21, mi |-> 59, se |-> 43])
                     + 5400

\* C8: for an implicit scalar that starts with a sign or a digit,
\* resolveInterface returns the first success of integer, float, timestamp in
\* that order, the timestamp being tried for a leading digit only, and the
\* raw text as a String when every attempt fails.
C8_FirstChar == event.value[1]

C9_True == {<<"y">>, <<"y", "e", "s">>, <<"t", "r", "u", "e">>, <<"o", "n">>}
C9_False == {<<"n">>, <<"n", "o">>, <<"f", "a", "l", "s", "e">>, <<"o", "f", "f">>}

C9_BoolIffTable ==
  (InferDone /\ event.implicit /\ event.value # <<>>)
    => /\ (outcome = "ok" /\ ret = BoolV(TRUE)) <=> (ToLower(event.value) \in C9_True)
       /\ (outcome = "ok" /\ ret = BoolV(FALSE)) <=> (ToLower(event.value) \in C9_False)

C9_Witness ==
  /\ InferDone
  /\ event.implicit
  /\ event.value = <<"O", "f", "F">>
  /\ ret = BoolV(FALSE)

\* C10: signed-integer resolution succeeds only if, after underscore stripping
\* and one optional sign (and the base prefix), the body and every group of a
\* sexagesimal body are digits of the base: a second sign makes it fail.
C10_OneSign ==
  (ResolveDone /\ kind \in IntKinds /\ path = "int" /\ outcome = "ok")
    => FormValue(Body) >= 0

=============================================================================
